---- MODULE Spec2Model ----
(***************************************************************************)
(* ConsoleIQ / ConsoleText: console interception engines.                  *)
(*                                                                         *)
(* The model keeps the process-wide state the engines share (the console   *)
(* entry points, the process listener lists, the window hooks) and each    *)
(* engine's own fields.  A function value is a reference                   *)
(* <<kind, engine, generation, slot>>: two references are the same         *)
(* function exactly when the tuples are equal, so every closure an init()  *)
(* creates is a new reference (its generation is the number of that        *)
(* init() call on its engine).                                             *)
(***************************************************************************)
EXTENDS Naturals, Sequences, FiniteSets

(* ------------------------------------------------------------------ *)
(* Bounds                                                              *)
(* ------------------------------------------------------------------ *)

\* init() calls modelled per engine
MaxInits == 2
\* listeners the application registers per process event / window hook
MaxAppListeners == 2
\* shipments of one engine that may be awaiting their outcome
MaxInFlight == 2
\* objects of a value handed to the serializer
MaxNodes == 2
\* the largest maxErrorDepth a caller configures
MaxDepthOption == 2
\* options of a constructor call that differ from "not given"
MaxGiven == 2
\* setConfig calls that pass an allowedLevels array
MaxSetArrays == 1

(* ------------------------------------------------------------------ *)
(* Names                                                               *)
(* ------------------------------------------------------------------ *)

Engines == {"A", "B"}
Kinds == {"ConsoleIQ", "ConsoleText"}

standardMethods == {"log", "info", "warn", "error", "debug"}
otherMethods == {"dir", "table", "time", "timeEnd", "trace", "assert"}
otherMethodsText == {"dir", "table", "time", "timeEnd", "trace"}
Slots == standardMethods \cup otherMethods \cup {"text"}
Levels == standardMethods \cup {"text"}

Events == {"uncaughtException", "unhandledRejection"}
Envs == {"node", "browser"}

\* argument values, by what the code can tell apart: a primitive (a
\* function behaves alike), a plain object (an array behaves alike), an
\* object that refers to itself, an Error, an Error with an own enumerable
\* property whose getter throws, a plain object with such a property
ArgKinds == {"prim", "obj", "cyclic", "err", "errBad", "objBad"}

(* ------------------------------------------------------------------ *)
(* Function references                                                 *)
(* ------------------------------------------------------------------ *)

Undefined == <<"undefined", "-", 0, "-">>
Null == <<"null", "-", 0, "-">>
Native(m) == <<"native", "-", 0, m>>
AppFn(n, ev) == <<"app", "-", n, ev>>
Wrapper(e, g, m) == <<"wrapper", e, g, m>>
PassThrough(e, g, m) == <<"pass", e, g, m>>
TextFn(e, g) == <<"text", e, g, "text">>
ConsoleErrorFn(e, g) == <<"consoleError", e, g, "error">>
Listener(e, g, ev) == <<"listener", e, g, ev>>

IsFunction(f) == f[1] \notin {"undefined", "null"}

Last(s) == s[Len(s)]

(* ------------------------------------------------------------------ *)
(* Configuration                                                       *)
(* ------------------------------------------------------------------ *)

DefaultEndpointIQ == "https://api.consoleiq.io/logs"
DefaultEndpointText == "https://api.consoletext.xyz/logs"

\* allowedLevels arrays a caller may pass, by name
LevelsOf(name) ==
  CASE name = "none" -> {}
    [] name = "log" -> {"log"}
    [] name = "all" -> Levels

OptionFields == {"endpoint", "silent", "allowedLevels", "captureGlobalErrors",
                 "captureUnhandledRejections", "captureConsoleErrors",
                 "autoTraceErrors", "enhanceErrors",
                 "apiKey", "name", "environment"}

\* the options that decide what is printed, captured and shipped
BehaviourFields == OptionFields \ {"apiKey", "name", "environment"}

\* the constructor's argument: every option is "absent" or given a value
\* other than its default
AllOptions ==
  [endpoint : {"absent", "url"},
   silent : {"absent", "true"},
   allowedLevels : {"absent", "none", "log", "all"},
   captureGlobalErrors : {"absent", "false"},
   captureUnhandledRejections : {"absent", "false"},
   captureConsoleErrors : {"absent", "false"},
   autoTraceErrors : {"absent", "false"},
   enhanceErrors : {"absent", "false"},
   apiKey : {"absent", "test-key"},
   name : {"absent", "TestLogger"},
   environment : {"absent", "browser", "node"}]

Given(o) == {f \in OptionFields : o[f] # "absent"}

\* ConsoleText reads endpoint, silent and allowedLevels only
OptionsOf(kind) ==
  {o \in AllOptions :
     /\ Cardinality(Given(o)) <= MaxGiven
     /\ Given(o) \subseteq BehaviourFields
     /\ kind = "ConsoleText" =>
          Given(o) \subseteq {"endpoint", "silent", "allowedLevels"}}

\* config.x || dflt   and   config.x !== false
OrDefault(v, dflt) == IF v = "absent" THEN dflt ELSE v
NotFalse(v) == v # "false"

ConfigIQ(o, environment) ==
  [endpoint |-> OrDefault(o.endpoint, DefaultEndpointIQ),
   silent |-> (o.silent = "true"),
   allowedLevels |-> IF o.allowedLevels = "absent" THEN {"error", "text"}
                     ELSE LevelsOf(o.allowedLevels),
   captureGlobalErrors |-> NotFalse(o.captureGlobalErrors),
   captureUnhandledRejections |-> NotFalse(o.captureUnhandledRejections),
   captureConsoleErrors |-> NotFalse(o.captureConsoleErrors),
   autoTraceErrors |-> NotFalse(o.autoTraceErrors),
   enhanceErrors |-> NotFalse(o.enhanceErrors),
   apiKey |-> OrDefault(o.apiKey, "null"),
   name |-> OrDefault(o.name, "ConsoleIQ"),
   environment |-> environment]

\* ConsoleText has no capture, trace, enhancement or environment options:
\* the fields are kept and no ConsoleText operation reads them
ConfigText(o, environment) ==
  [endpoint |-> OrDefault(o.endpoint, DefaultEndpointText),
   silent |-> (o.silent = "true"),
   allowedLevels |-> IF o.allowedLevels = "absent" THEN {"text"}
                     ELSE LevelsOf(o.allowedLevels),
   captureGlobalErrors |-> FALSE,
   captureUnhandledRejections |-> FALSE,
   captureConsoleErrors |-> FALSE,
   autoTraceErrors |-> FALSE,
   enhanceErrors |-> FALSE,
   apiKey |-> OrDefault(o.apiKey, "null"),
   name |-> OrDefault(o.name, "ConsoleText"),
   environment |-> environment]

\* a JavaScript string is truthy unless empty; null is not
Truthy(endpoint) == endpoint \notin {"null", ""}

(* ------------------------------------------------------------------ *)
(* State                                                               *)
(* ------------------------------------------------------------------ *)

VARIABLES
  env,        \* "browser": window and window.addEventListener exist
  console,    \* the global console: slot -> function reference
  listeners,  \* process listeners: event -> sequence of references
  win,        \* window.onerror, window.onunhandledrejection, and the
              \* 'unhandledrejection' listeners added to window
  appRegs,    \* how many handlers the application has registered per event
  eng,        \* the engines: name -> fields
  inflight,   \* engine -> POSTs awaiting their outcome
  op,         \* the last operation <<name, engine, slot, argument>>
  out,        \* what the last operation did (see NoEffect)
  pre,        \* console, listeners and win as they were before the last init()
  ser,        \* a value handed to the serializer or to the enhancer, and
              \* what came out
  mem         \* the objects an engine's configuration shares with the
              \* application (see NoMemory)

vars == <<env, console, listeners, win, appRegs, eng, inflight, op, out, pre, ser,
          mem>>

NoEngine ==
  [built |-> FALSE, kind |-> "ConsoleIQ",
   options |-> [f \in OptionFields |-> "absent"],
   config |-> ConfigIQ([f \in OptionFields |-> "absent"], "node"),
   originalConsole |-> [m \in Slots |-> Undefined],
   inits |-> 0,
   originalConsoleError |-> Undefined,
   onerror |-> Null, onunhandledrejection |-> Null,
   initialized |-> FALSE]

\* what an operation did: the POSTs attempted <<engine, level>>, the calls
\* an engine made to a function of its originalConsole <<engine, slot>>,
\* the native console functions reached, the application's handlers
\* invoked, whether an exception reached the caller, how many promises of
\* _sendToServer ended rejected, whether a handler re-entered itself, and
\* the stacks an engine printed at level trace <<engine, whose stack>>, and
\* the one-line summaries an engine formatted for an uncaught exception or
\* an unhandled rejection <<engine, summary>>
NoEffect ==
  [posts |-> <<>>, local |-> <<>>, native |-> <<>>, app |-> <<>>,
   raised |-> FALSE, rejected |-> 0, diverged |-> FALSE, traces |-> <<>>,
   summaries |-> <<>>]

Globals == [console |-> console, listeners |-> listeners, win |-> win]

\* op and out describe a call, an event or a shipment outcome until the
\* application goes on (Return); nothing else starts before that
Quiet == op[1] \notin {"call", "calls", "settle", "emit"}

\* no value is being serialized
NoSerialization == [by |-> "none"]

\* no engine's configuration is being followed object by object
NoMemory == [built |-> FALSE]

Init ==
  /\ ser = NoSerialization
  /\ mem = NoMemory
  /\ env \in Envs
  /\ console = [m \in Slots |-> IF m = "text" THEN Undefined ELSE Native(m)]
  /\ listeners = [ev \in Events |-> <<>>]
  /\ win = [onerror |-> Null, onunhandledrejection |-> Null, added |-> <<>>]
  /\ appRegs = [ev \in Events |-> 0]
  /\ eng = [e \in Engines |-> NoEngine]
  /\ inflight = [e \in Engines |-> 0]
  /\ op = <<"start", "-", "-", "-">>
  /\ out = NoEffect
  /\ pre = Globals

(* ------------------------------------------------------------------ *)
(* Construction                                                        *)
(* ------------------------------------------------------------------ *)

\* this.originalConsole: the console functions at construction; text maps
\* to console.log, and ConsoleText keeps no assert
OriginalConsole(kind) ==
  [m \in Slots |->
     IF m = "text" THEN console["log"]
     ELSE IF kind = "ConsoleText" /\ m = "assert" THEN Undefined
     ELSE console[m]]

OriginalKeys(kind) ==
  IF kind = "ConsoleText" THEN Slots \ {"assert"} ELSE Slots

NewEngine(kind, o) ==
  [built |-> TRUE, kind |-> kind, options |-> o,
   config |-> IF kind = "ConsoleIQ" THEN ConfigIQ(o, env) ELSE ConfigText(o, env),
   originalConsole |-> OriginalConsole(kind),
   inits |-> 0,
   originalConsoleError |-> Undefined,
   onerror |-> Null, onunhandledrejection |-> Null,
   initialized |-> FALSE]

\* a constructor that already installs the wrappers
ConstructInstalling(e, kind, o) ==
  /\ Quiet
  /\ ~eng[e].built
  /\ eng' = [eng EXCEPT ![e] = NewEngine(kind, o)]
  /\ console' = [m \in Slots |->
                   IF m \in standardMethods THEN Wrapper(e, 1, m) ELSE console[m]]
  /\ op' = <<"new", e, "-", "-">>
  /\ out' = NoEffect
  /\ UNCHANGED <<mem, ser, env, listeners, win, appRegs, inflight, pre>>

\* new ConsoleIQ(options), new ConsoleText(options)
Construct(e, kind, o) ==
  /\ Quiet
  /\ ~eng[e].built
  /\ eng' = [eng EXCEPT ![e] = NewEngine(kind, o)]
  /\ op' = <<"new", e, "-", "-">>
  /\ out' = NoEffect
  /\ UNCHANGED <<mem, ser, env, console, listeners, win, appRegs, inflight, pre>>

(* ------------------------------------------------------------------ *)
(* init()                                                              *)
(* ------------------------------------------------------------------ *)

\* the console after init() has assigned its closures of generation g
Installed(e, g, kind) ==
  [m \in Slots |->
     IF m \in standardMethods THEN Wrapper(e, g, m)
     ELSE IF m = "text" THEN TextFn(e, g)
     ELSE IF kind = "ConsoleText" /\ m = "assert" THEN console[m]
     ELSE PassThrough(e, g, m)]

\* process.listeners(ev).pop() || null
LastListener(ev) ==
  IF Len(listeners[ev]) > 0 THEN Last(listeners[ev]) ELSE Null

\* an init() that takes the snapshot of the console itself, before it
\* installs its closures
InitIQSnapshotting(e) ==
  LET E == eng[e]
      g == E.inits + 1
      c1 == Installed(e, g, "ConsoleIQ")
      cge == E.config.captureGlobalErrors
      cur == E.config.captureUnhandledRejections
      cce == E.config.captureConsoleErrors
      ue == "uncaughtException"
      ur == "unhandledRejection"
  IN
  /\ Quiet
  /\ E.built /\ E.kind = "ConsoleIQ" /\ E.inits < MaxInits
  /\ console' = IF cce THEN [c1 EXCEPT !["error"] = ConsoleErrorFn(e, g)] ELSE c1
  /\ listeners' =
       IF env = "browser" THEN listeners
       ELSE [ev \in Events |->
               IF (ev = ue /\ cge) \/ (ev = ur /\ cur)
               THEN <<Listener(e, g, ev)>> ELSE listeners[ev]]
  /\ win' =
       IF env = "browser"
       THEN [win EXCEPT
               !.onerror = IF cge THEN Listener(e, g, ue) ELSE @,
               !.added = IF cur THEN Append(@, Listener(e, g, ur)) ELSE @]
       ELSE win
  /\ eng' = [eng EXCEPT ![e] =
       [E EXCEPT
          !.inits = g,
          !.originalConsole = OriginalConsole("ConsoleIQ"),
          !.onerror =
             IF ~cge THEN @
             ELSE IF env = "browser" THEN win.onerror ELSE LastListener(ue),
          !.onunhandledrejection =
             IF ~cur THEN @
             ELSE IF env = "browser" THEN win.onunhandledrejection
             ELSE LastListener(ur),
          !.originalConsoleError = IF cce THEN c1["error"] ELSE @,
          !.initialized = TRUE]]
  /\ pre' = Globals
  /\ op' = <<"init", e, "-", "-">>
  /\ out' = NoEffect
  /\ UNCHANGED <<mem, ser, env, appRegs, inflight>>

\* ConsoleIQ.init()
InitIQ(e) ==
  LET E == eng[e]
      g == E.inits + 1
      c1 == Installed(e, g, "ConsoleIQ")
      cge == E.config.captureGlobalErrors
      cur == E.config.captureUnhandledRejections
      cce == E.config.captureConsoleErrors
      ue == "uncaughtException"
      ur == "unhandledRejection"
  IN
  /\ Quiet
  /\ E.built /\ E.kind = "ConsoleIQ" /\ E.inits < MaxInits
  /\ console' = IF cce THEN [c1 EXCEPT !["error"] = ConsoleErrorFn(e, g)] ELSE c1
  /\ listeners' =
       IF env = "browser" THEN listeners
       ELSE [ev \in Events |->
               IF (ev = ue /\ cge) \/ (ev = ur /\ cur)
               THEN <<Listener(e, g, ev)>> ELSE listeners[ev]]
  /\ win' =
       IF env = "browser"
       THEN [win EXCEPT
               !.onerror = IF cge THEN Listener(e, g, ue) ELSE @,
               !.added = IF cur THEN Append(@, Listener(e, g, ur)) ELSE @]
       ELSE win
  /\ eng' = [eng EXCEPT ![e] =
       [E EXCEPT
          !.inits = g,
          !.onerror =
             IF ~cge THEN @
             ELSE IF env = "browser" THEN win.onerror ELSE LastListener(ue),
          !.onunhandledrejection =
             IF ~cur THEN @
             ELSE IF env = "browser" THEN win.onunhandledrejection
             ELSE LastListener(ur),
          !.originalConsoleError = IF cce THEN c1["error"] ELSE @,
          !.initialized = TRUE]]
  /\ pre' = Globals
  /\ op' = <<"init", e, "-", "-">>
  /\ out' = NoEffect
  /\ UNCHANGED <<mem, ser, env, appRegs, inflight>>

\* ConsoleText.init()
InitText(e) ==
  LET E == eng[e]
      g == E.inits + 1
  IN
  /\ Quiet
  /\ E.built /\ E.kind = "ConsoleText" /\ E.inits < MaxInits
  /\ console' = Installed(e, g, "ConsoleText")
  /\ eng' = [eng EXCEPT ![e] = [E EXCEPT !.inits = g]]
  /\ pre' = Globals
  /\ op' = <<"init", e, "-", "-">>
  /\ out' = NoEffect
  /\ UNCHANGED <<mem, ser, env, listeners, win, appRegs, inflight>>

(* ------------------------------------------------------------------ *)
(* restore()                                                           *)
(* ------------------------------------------------------------------ *)

\* this._consoleWrappers?.[m]: init() stores the five leveled wrappers and
\* nothing else
ConsoleWrappers(e, m) ==
  IF eng[e].inits > 0 /\ m \in standardMethods
  THEN Wrapper(e, eng[e].inits, m) ELSE Undefined

\* this._textWrapper, this._handleWindowError, this._handleWindowRejection:
\* read by restore(), assigned nowhere
TextWrapper(e) == Undefined
HandleWindowError(e) == Undefined
HandleWindowRejection(e) == Undefined

\* restore(): the console after the loop over originalConsole's keys and
\* the removal of console.text
RestoredSlots(e) ==
  LET c1 == [m \in Slots |->
               IF console[m] = ConsoleWrappers(e, m)
               THEN eng[e].originalConsole[m] ELSE console[m]]
  IN [c1 EXCEPT !["text"] = IF c1["text"] = TextWrapper(e) THEN Undefined ELSE @]

\* restore(): the last assignment, console.error = this.originalConsoleError
RestoredConsole(e) ==
  LET c2 == RestoredSlots(e)
  IN IF eng[e].config.captureConsoleErrors /\ IsFunction(eng[e].originalConsoleError)
     THEN [c2 EXCEPT !["error"] = eng[e].originalConsoleError]
     ELSE c2

\* restore(), server branch: removeAllListeners and re-register the one
\* saved handler, only when one was saved
RestoredListeners(e) ==
  [ev \in Events |->
     LET saved == IF ev = "uncaughtException" THEN eng[e].onerror
                  ELSE eng[e].onunhandledrejection
     IN IF IsFunction(saved) THEN <<saved>> ELSE listeners[ev]]

\* restore(), browser branch
RestoredWindow(e) ==
  [win EXCEPT
     !.onerror = IF @ = HandleWindowError(e) THEN eng[e].onerror ELSE @,
     !.onunhandledrejection =
        IF @ = HandleWindowRejection(e) THEN eng[e].onunhandledrejection ELSE @]

RestoreTag(e) == IF op[1] = "init" /\ op[2] = e THEN "afterInit" ELSE "-"

\* a restore() without the _initialized test
RestoreIQUnguarded(e) ==
  /\ Quiet
  /\ eng[e].built /\ eng[e].kind = "ConsoleIQ"
  /\ console' = RestoredConsole(e)
  /\ listeners' = IF env = "browser" THEN listeners ELSE RestoredListeners(e)
  /\ win' = IF env = "browser" THEN RestoredWindow(e) ELSE win
  /\ eng' = [eng EXCEPT ![e].initialized = FALSE]
  /\ op' = <<"restore", e, RestoreTag(e), "-">>
  /\ out' = NoEffect
  /\ UNCHANGED <<mem, ser, env, appRegs, inflight, pre>>

\* ConsoleIQ.restore()
RestoreIQ(e) ==
  /\ Quiet
  /\ eng[e].built /\ eng[e].kind = "ConsoleIQ"
  /\ IF ~eng[e].initialized
     THEN UNCHANGED <<console, listeners, win, eng>>
     ELSE /\ console' = RestoredConsole(e)
          /\ listeners' = IF env = "browser" THEN listeners ELSE RestoredListeners(e)
          /\ win' = IF env = "browser" THEN RestoredWindow(e) ELSE win
          /\ eng' = [eng EXCEPT ![e].initialized = FALSE]
  /\ op' = <<"restore", e, RestoreTag(e), "-">>
  /\ out' = NoEffect
  /\ UNCHANGED <<mem, ser, env, appRegs, inflight, pre>>

\* ConsoleText.restore(): every key of originalConsole is assigned back,
\* then console.text is deleted
RestoredText(e) ==
  [m \in Slots |->
     IF m = "text" THEN Undefined
     ELSE IF m \in OriginalKeys("ConsoleText") THEN eng[e].originalConsole[m]
     ELSE console[m]]

RestoreText(e) ==
  /\ Quiet
  /\ eng[e].built /\ eng[e].kind = "ConsoleText"
  /\ console' = RestoredText(e)
  /\ op' = <<"restore", e, RestoreTag(e), "-">>
  /\ out' = NoEffect
  /\ UNCHANGED <<mem, ser, env, listeners, win, appRegs, eng, inflight, pre>>

(* ------------------------------------------------------------------ *)
(* The application's own handlers                                      *)
(* ------------------------------------------------------------------ *)

\* process.on(ev, handler) on the server; window.onerror = handler or
\* window.onunhandledrejection = handler in the browser.  The application
\* registers its handlers at start-up, before any engine is initialized.
AppListen(ev) ==
  LET f == AppFn(appRegs[ev] + 1, ev) IN
  /\ Quiet
  /\ \A e \in Engines : eng[e].inits = 0
  /\ appRegs[ev] < MaxAppListeners
  /\ appRegs' = [appRegs EXCEPT ![ev] = @ + 1]
  /\ listeners' = IF env = "browser" THEN listeners
                  ELSE [listeners EXCEPT ![ev] = Append(@, f)]
  /\ win' = IF env # "browser" THEN win
            ELSE IF ev = "uncaughtException" THEN [win EXCEPT !.onerror = f]
            ELSE [win EXCEPT !.onunhandledrejection = f]
  /\ op' = <<"listen", "-", ev, "-">>
  /\ out' = NoEffect
  /\ UNCHANGED <<mem, ser, env, console, eng, inflight, pre>>

(* ------------------------------------------------------------------ *)
(* What a call does                                                    *)
(* ------------------------------------------------------------------ *)

\* a, then b unless a threw
Then(a, b) ==
  IF a.raised THEN a
  ELSE [posts |-> a.posts \o b.posts,
        local |-> a.local \o b.local,
        native |-> a.native \o b.native,
        app |-> a.app \o b.app,
        raised |-> b.raised,
        rejected |-> a.rejected + b.rejected,
        diverged |-> a.diverged \/ b.diverged,
        traces |-> a.traces \o b.traces,
        summaries |-> a.summaries \o b.summaries]

Raise == [NoEffect EXCEPT !.raised = TRUE]
\* axios.post(url, record, {headers}) by engine e
Post(e, level, request) == [NoEffect EXCEPT !.posts = <<<<e, level, request>>>>]
Rejected == [NoEffect EXCEPT !.rejected = 1]

Some(args, kinds) == \E i \in 1..Len(args) : args[i] \in kinds

\* arg instanceof Error
ErrorKinds == {"err", "errBad"}

\* _enhanceError builds {...error, source, ...}: the spread reads every own
\* enumerable property of the Error, so a getter that throws throws here;
\* the result is a plain object, no longer an Error
EnhanceRaises(e, args) ==
  eng[e].config.enhanceErrors /\ Some(args, {"errBad"})

EnhancedArgs(e, args) ==
  [i \in 1..Len(args) |->
     IF args[i] \in ErrorKinds /\ eng[e].config.enhanceErrors
     THEN "enhanced" ELSE args[i]]

\* ConsoleIQ._serializeObject reads name, message and stack of an Error and
\* every own property of any other object
SerializeRaises(args) == Some(args, {"objBad"})

\* ConsoleText: JSON.stringify(arg) for every typeof 'object' argument
StringifyRaises(args) == Some(args, {"cyclic", "objBad", "errBad"})

RECURSIVE Invoke(_, _)

\* this.originalConsole[slot](...args)
CallOriginal(e, slot, args) ==
  Then([NoEffect EXCEPT !.local = <<<<e, slot>>>>],
       Invoke(eng[e].originalConsole[slot], args))

\* _applyColorAndLog(level, ...args): applyColor maps strings to strings
ApplyColorAndLog(e, level, args) ==
  CallOriginal(e, IF level = "text" THEN "log" ELSE level, args)

\* a catch block that reports whatever silent says
ReportFailureAlways(e) == CallOriginal(e, "error", <<"prim", "prim">>)

\* a catch block that reports only while the engine is initialized
ReportFailureIfInitialized(e) ==
  IF ~eng[e].config.silent /\ eng[e].initialized
  THEN CallOriginal(e, "error", <<"prim", "prim">>)
  ELSE NoEffect

\* the catch block of ConsoleIQ._sendToServer
ReportFailureIQ(e) ==
  IF ~eng[e].config.silent
  THEN CallOriginal(e, "error", <<"prim", "prim">>)
  ELSE NoEffect

\* the catch block of ConsoleText._sendToServer
ReportFailureText(e) == CallOriginal(e, "error", <<"prim">>)

\* an entry of messages: String(arg), or _serializeObject(arg) for an object
StringOf(arg) == <<"string", arg>>
Serialization(arg) == <<"object", arg>>
Message(arg) == IF arg = "prim" THEN StringOf(arg) ELSE Serialization(arg)

\* a record that carries one message for the whole call, not one entry per
\* argument
JoinedMessages(args) == <<StringOf("joined")>>

\* messages: args.map(...)
Messages(args) == [i \in 1..Len(args) |-> Message(args[i])]

\* headers that never carry the key
HeadersWithoutKey(e) ==
  [contentType |-> "application/json", authorization |-> <<>>]

\* headers: Content-Type, and Authorization if (this.config.apiKey)
Headers(e) ==
  [contentType |-> "application/json",
   authorization |-> IF Truthy(eng[e].config.apiKey)
                     THEN <<"Bearer", eng[e].config.apiKey>> ELSE <<>>]

\* axios.post(this.config.endpoint, logData, {headers, timeout}) of ConsoleIQ
RequestIQ(e, level, args) ==
  [url |-> eng[e].config.endpoint,
   level |-> level,
   messages |-> Messages(args),
   name |-> eng[e].config.name,
   environment |-> eng[e].config.environment,
   headers |-> Headers(e)]

\* _getErrorStack(args) of the single-message variant: the stack of the
\* first argument that is instanceof Error, else null
GetErrorStack(args) == IF Some(args, ErrorKinds) THEN "stack" ELSE "null"

\* the arguments _sendToServer was handed, read off the record it posted
ShippedArgs(request) ==
  [i \in 1..Len(request.messages) |-> request.messages[i][2]]

\* the record the single-message variant of ConsoleIQ posts for the same
\* arguments: one message, and a stack for level error
RequestSingle(e, level, args) ==
  [url |-> eng[e].config.endpoint,
   level |-> level,
   messages |-> <<StringOf("joined")>>,
   name |-> eng[e].config.name,
   environment |-> eng[e].config.environment,
   headers |-> Headers(e),
   stack |-> IF level = "error" THEN GetErrorStack(args) ELSE "absent"]

\* axios.post(this.config.endpoint, logData, {headers}) of ConsoleText: one
\* message, the arguments joined by a blank; no environment
RequestText(e, level, args) ==
  [url |-> eng[e].config.endpoint,
   level |-> level,
   messages |-> <<StringOf("joined")>>,
   name |-> eng[e].config.name,
   environment |-> "none",
   headers |-> Headers(e)]

\* ConsoleIQ._sendToServer up to its await: the record is built inside the
\* try, so a failing serialization is reported at once and nothing is sent
SendToServerIQ(e, level, args) ==
  IF ~Truthy(eng[e].config.endpoint) THEN NoEffect
  ELSE IF SerializeRaises(args) THEN ReportFailureIQ(e)
  ELSE Post(e, level, RequestIQ(e, level, args))

\* ConsoleText._sendToServer up to its await: the record is built before the
\* try, so a failing JSON.stringify rejects the returned promise
SendToServerText(e, level, args) ==
  IF ~Truthy(eng[e].config.endpoint) THEN NoEffect
  ELSE IF StringifyRaises(args) THEN Rejected
  ELSE Post(e, level, RequestText(e, level, args))

\* a check that forgets allowedLevels
ShipsAnyLevel(e, level) == Truthy(eng[e].config.endpoint)

\* if (this.config.endpoint && this.config.allowedLevels.includes(level))
Ships(e, level) ==
  Truthy(eng[e].config.endpoint) /\ level \in eng[e].config.allowedLevels

\* _applyColorAndLog('trace', stack): the stack of the Error logged, or
\* one captured where the engine stands
TraceStack(e, whose) ==
  Then([NoEffect EXCEPT !.traces = <<<<e, whose>>>>],
       ApplyColorAndLog(e, "trace", <<"prim">>))

\* ConsoleIQ._handleLog: the trace line after an error-level output; args
\* are the enhanced arguments, searched for an instanceof Error
TraceLine(e, level, args) ==
  IF level = "error" /\ eng[e].config.autoTraceErrors
  THEN IF Some(args, ErrorKinds) THEN TraceStack(e, "argument")
       ELSE IF eng[e].config.environment = "browser"
       THEN TraceStack(e, "engine")
       ELSE NoEffect
  ELSE NoEffect

\* ConsoleIQ._handleLog(level, args)
HandleLogIQ(e, level, args) ==
  IF EnhanceRaises(e, args) THEN Raise
  ELSE LET enhanced == EnhancedArgs(e, args) IN
       Then(IF Ships(e, level) THEN SendToServerIQ(e, level, enhanced)
            ELSE NoEffect,
            IF eng[e].config.silent THEN NoEffect
            ELSE Then(ApplyColorAndLog(e, level, enhanced),
                      TraceLine(e, level, enhanced)))

\* ConsoleText._handleLog(level, args)
HandleLogText(e, level, args) ==
  Then(IF Ships(e, level) THEN SendToServerText(e, level, args) ELSE NoEffect,
       IF eng[e].config.silent THEN NoEffect
       ELSE ApplyColorAndLog(e, level, args))

\* console.text as init() installs it
TextCall(e, args) ==
  Then(IF Ships(e, "text")
       THEN IF eng[e].kind = "ConsoleIQ" THEN SendToServerIQ(e, "text", args)
            ELSE SendToServerText(e, "text", args)
       ELSE NoEffect,
       IF eng[e].config.silent THEN NoEffect
       ELSE ApplyColorAndLog(e, "text", args))

\* dir, table, time, timeEnd, trace, assert as init() installs them
PassThroughCall(e, m, args) ==
  IF eng[e].config.silent THEN NoEffect ELSE CallOriginal(e, m, args)

\* ConsoleIQ._handleConsoleError(args)
HandleConsoleError(e, args) ==
  IF Ships(e, "error")
  THEN IF EnhanceRaises(e, args) THEN Raise
       ELSE SendToServerIQ(e, "error", EnhancedArgs(e, args))
  ELSE NoEffect

\* console.error as _setupErrorHandlers installs it
ConsoleErrorCall(e, args) ==
  IF EnhanceRaises(e, args) THEN Raise
  ELSE Then(HandleConsoleError(e, EnhancedArgs(e, args)),
            Invoke(eng[e].originalConsoleError, args))

\* the functions a function installed by an engine may call to print:
\* those of its engine's originalConsole (the level's, and trace for the
\* stack of an error), or the console.error its engine saved
Callees(f) ==
  LET e == f[2] IN
  CASE f[1] = "wrapper" ->
         {eng[e].originalConsole[f[4]]} \cup
         (IF f[4] = "error" /\ eng[e].kind = "ConsoleIQ"
          THEN {eng[e].originalConsole["trace"]} ELSE {})
    [] f[1] = "text" -> {eng[e].originalConsole["log"]}
    [] f[1] = "pass" -> {eng[e].originalConsole[f[4]]}
    [] f[1] = "consoleError" -> {eng[e].originalConsoleError}
    [] OTHER -> {}

\* calling the function a reference stands for
Invoke(f, args) ==
  CASE f[1] = "native" -> [NoEffect EXCEPT !.native = <<f[4]>>]
    [] f[1] = "app" -> [NoEffect EXCEPT !.app = <<f>>]
    [] f[1] = "wrapper" ->
         IF eng[f[2]].kind = "ConsoleIQ" THEN HandleLogIQ(f[2], f[4], args)
         ELSE HandleLogText(f[2], f[4], args)
    [] f[1] = "text" -> TextCall(f[2], args)
    [] f[1] = "pass" -> PassThroughCall(f[2], f[4], args)
    [] f[1] = "consoleError" -> ConsoleErrorCall(f[2], args)
    [] OTHER -> Raise

PostsBy(eff, e) ==
  Cardinality({i \in 1..Len(eff.posts) : eff.posts[i][1] = e})

\* the POSTs of an operation join those awaiting their outcome
Ship(eff) ==
  /\ \A e \in Engines : inflight[e] + PostsBy(eff, e) <= MaxInFlight
  /\ inflight' = [e \in Engines |-> inflight[e] + PostsBy(eff, e)]

\* a call that returns only once the POSTs it made have succeeded
CallAwaiting(m, arg) ==
  /\ Quiet
  /\ IsFunction(console[m])
  /\ out' = Invoke(console[m], <<arg>>)
  /\ op' = <<"call", "-", m, arg>>
  /\ UNCHANGED <<mem, ser, env, console, listeners, win, appRegs, eng, inflight, pre>>

\* console[m](arg) called by the application
Call(m, arg) ==
  /\ Quiet
  /\ IsFunction(console[m])
  /\ LET eff == Invoke(console[m], <<arg>>) IN
     /\ Ship(eff)
     /\ out' = eff
  /\ op' = <<"call", "-", m, arg>>
  /\ UNCHANGED <<mem, ser, env, console, listeners, win, appRegs, eng, pre>>

\* console[m](...args) called by the application with several arguments
CallMany(m, args) ==
  /\ Quiet
  /\ IsFunction(console[m])
  /\ LET eff == Invoke(console[m], args) IN
     /\ Ship(eff)
     /\ out' = eff
  /\ op' = <<"calls", "-", m, args>>
  /\ UNCHANGED <<mem, ser, env, console, listeners, win, appRegs, eng, pre>>

\* the POST of a shipment of engine e succeeds or fails
Settle(e, outcome) ==
  /\ Quiet
  /\ inflight[e] > 0
  /\ LET eff == IF outcome = "ok" THEN NoEffect
                ELSE IF eng[e].kind = "ConsoleIQ" THEN ReportFailureIQ(e)
                ELSE ReportFailureText(e)
         left == [inflight EXCEPT ![e] = @ - 1]
     IN /\ \A x \in Engines : left[x] + PostsBy(eff, x) <= MaxInFlight
        /\ inflight' = [x \in Engines |-> left[x] + PostsBy(eff, x)]
        /\ out' = eff
  /\ op' = <<"settle", e, outcome, "-">>
  /\ UNCHANGED <<mem, ser, env, console, listeners, win, appRegs, eng, pre>>

(* ------------------------------------------------------------------ *)
(* Uncaught exceptions and unhandled rejections                        *)
(* ------------------------------------------------------------------ *)

\* what is thrown or rejected: an Error, an Error with an own enumerable
\* property whose getter throws, a primitive, null or undefined
Thrown == {"err", "errBad", "prim", "null"}

Diverge == [NoEffect EXCEPT !.raised = TRUE, !.diverged = TRUE]

\* errorInfo.message || errorInfo, as the template string renders it: the
\* message property where the value has one, else String(errorInfo). An
\* Error has a message; {...error} copies the own enumerable properties,
\* which the message of an Error is not, and copies the message of a plain
\* record
MessageOf(info) ==
  CASE info \in {"err", "errBad", "plain", "traced", "enhancedRecord"} -> "message"
    [] info = "enhanced" -> "[object Object]"
    [] OTHER -> "String(value)"

\* _formatError(type, errorInfo): [name] [type] message
FormatError(e, type, info) ==
  [name |-> eng[e].config.name, type |-> type, message |-> MessageOf(info)]

\* _handleGlobalError(type, info), _handleRejection(info): format, ship as
\* "error", print, print the stack
HandleGlobal(e, type, info) ==
  IF info = "null" THEN Raise
  ELSE Then([NoEffect EXCEPT !.summaries = <<<<e, FormatError(e, type, info)>>>>],
       Then(IF Ships(e, "error") THEN SendToServerIQ(e, "error", <<"prim", info>>)
            ELSE NoEffect,
            IF eng[e].config.silent THEN NoEffect
            ELSE Then(ApplyColorAndLog(e, "error", <<"prim">>),
                      IF eng[e].config.autoTraceErrors
                         /\ info \in {"err", "errBad", "enhanced", "enhancedRecord", "traced"}
                      THEN TraceStack(e, IF info = "traced" THEN "engine" ELSE "argument")
                      ELSE NoEffect)))

\* _enhanceError(error, source) reads error.stack
EnhanceErrorRaises(e, v) ==
  eng[e].config.enhanceErrors /\ v \in {"null", "errBad"}

EnhancedError(e, v) ==
  IF ~eng[e].config.enhanceErrors THEN v
  ELSE IF v = "plain" THEN "enhancedRecord" ELSE "enhanced"

\* _enhanceRejection(reason): an Error goes through _enhanceError, anything
\* else becomes a record whose stack is set only with autoTraceErrors
EnhanceRejectionRaises(e, v) == v \in ErrorKinds /\ EnhanceErrorRaises(e, v)

EnhancedRejection(e, v) ==
  IF v \in ErrorKinds THEN EnhancedError(e, v)
  ELSE IF eng[e].config.autoTraceErrors THEN "traced" ELSE "plain"

\* in the browser window.onerror builds {message, source, ..., stack, name}
\* itself and enhances that
Saved(e, ev) ==
  IF ev = "uncaughtException" THEN eng[e].onerror ELSE eng[e].onunhandledrejection

RECURSIVE Handler(_, _, _)

\* the handler an engine registers: handle, then forward to the handler it
\* saved (read from the engine when the event arrives)
EngineHandler(f, v, seen) ==
  LET e == f[2]
      ev == f[4]
      raises == IF ev = "unhandledRejection" THEN EnhanceRejectionRaises(e, v)
                ELSE IF eng[e].config.environment = "browser" THEN FALSE
                ELSE EnhanceErrorRaises(e, v)
      type == IF ev = "unhandledRejection" THEN ev
              ELSE IF eng[e].config.environment = "browser" THEN "window.onerror"
              ELSE ev
      info == IF ev = "unhandledRejection" THEN EnhancedRejection(e, v)
              ELSE IF eng[e].config.environment = "browser"
              THEN EnhancedError(e, "plain")
              ELSE EnhancedError(e, v)
  IN IF raises THEN Raise
     ELSE Then(HandleGlobal(e, type, info),
               IF IsFunction(Saved(e, ev))
               THEN Handler(Saved(e, ev), v, seen \cup {f})
               ELSE NoEffect)

Handler(f, v, seen) ==
  IF f \in seen THEN Diverge
  ELSE IF f[1] = "listener" THEN EngineHandler(f, v, seen)
  ELSE IF f[1] = "app" THEN [NoEffect EXCEPT !.app = <<f>>]
  ELSE Raise

RECURSIVE Deliver(_, _)

\* the handlers of an event are called in order; one that throws ends it
Deliver(fs, v) ==
  IF Len(fs) = 0 THEN NoEffect
  ELSE Then(Handler(Head(fs), v, {}), Deliver(Tail(fs), v))

\* who is called for an event
Handlers(ev) ==
  IF env # "browser" THEN listeners[ev]
  ELSE IF ev = "uncaughtException"
       THEN IF IsFunction(win.onerror) THEN <<win.onerror>> ELSE <<>>
       ELSE (IF IsFunction(win.onunhandledrejection)
             THEN <<win.onunhandledrejection>> ELSE <<>>) \o win.added

\* an exception nobody caught, or a rejection nobody handled
Emit(ev, v) ==
  /\ Quiet
  /\ Len(Handlers(ev)) > 0
  /\ LET eff == Deliver(Handlers(ev), v) IN
     /\ Ship(eff)
     /\ out' = eff
  /\ op' = <<"emit", "-", ev, v>>
  /\ UNCHANGED <<mem, ser, env, console, listeners, win, appRegs, eng, pre>>

\* the application goes on after a call, an event or a shipment outcome
Return ==
  /\ ~Quiet
  /\ op' = <<"idle", "-", "-", "-">>
  /\ out' = NoEffect
  /\ UNCHANGED <<mem, ser, env, console, listeners, win, appRegs, eng, inflight, pre>>

(* ------------------------------------------------------------------ *)
(* Serialization                                                       *)
(* ------------------------------------------------------------------ *)

\* A value is a graph of objects. The first object is the logged argument;
\* every object has the keys a and b, in this order, each absent, a
\* primitive or a reference to an object (an array of two items behaves
\* alike).
ObjectNames == <<"o1", "o2", "o3", "o4">>
Nodes == {ObjectNames[i] : i \in 1..MaxNodes}
Root == ObjectNames[1]
Children == {"absent", "prim"} \cup Nodes
Graphs == [Nodes -> [a : Children, b : Children]]

\* what the serializer returns: a string or primitive <<s>>, or an object
\* <<value of a, value of b>>
Leaf(s) == <<s>>
MaxDepthReached == Leaf("[Max Depth Reached]")
CircularReference == Leaf("[Circular Reference]")
ObjectObject == Leaf("[object Object]")

\* maxErrorDepth: config.maxErrorDepth || 5
DefaultMaxErrorDepth == 5
DepthOptions ==
  {o \in [given : BOOLEAN, value : 0..MaxDepthOption] : ~o.given => o.value = 0}
MaxErrorDepthOf(option) ==
  IF ~option.given \/ option.value = 0 THEN DefaultMaxErrorDepth
  ELSE option.value

RECURSIVE Serialize(_, _, _, _, _)

\* the closure serialize(value, currentDepth) of _serializeObject; seen is
\* the one WeakSet of the call, handed on from key to key
Serialize(g, value, currentDepth, seen, m) ==
  IF currentDepth > m THEN [val |-> MaxDepthReached, seen |-> seen]
  ELSE IF value \notin Nodes THEN [val |-> Leaf(value), seen |-> seen]
  ELSE IF value \in seen THEN [val |-> CircularReference, seen |-> seen]
  ELSE LET s1 == seen \cup {value}
           ra == IF g[value].a = "absent" THEN [val |-> Leaf("absent"), seen |-> s1]
                 ELSE Serialize(g, g[value].a, currentDepth + 1, s1, m)
           rb == IF g[value].b = "absent"
                 THEN [val |-> Leaf("absent"), seen |-> ra.seen]
                 ELSE Serialize(g, g[value].b, currentDepth + 1, ra.seen, m)
       IN [val |-> <<ra.val, rb.val>>, seen |-> rb.seen]

\* _serializeObject(obj) as _sendToServer calls it for an object argument
SerializeObject(g, m) == Serialize(g, Root, 0, {}, m).val

RECURSIVE PrepareForSerialization(_, _, _, _, _)

\* _prepareForSerialization(data, seen, depth) of the single-message variant
PrepareForSerialization(g, data, seen, depth, m) ==
  IF depth > m THEN [val |-> MaxDepthReached, seen |-> seen]
  ELSE IF data \notin Nodes THEN [val |-> Leaf(data), seen |-> seen]
  ELSE IF data \in seen THEN [val |-> CircularReference, seen |-> seen]
  ELSE LET s1 == seen \cup {data}
           ra == IF g[data].a = "absent" THEN [val |-> Leaf("absent"), seen |-> s1]
                 ELSE PrepareForSerialization(g, g[data].a, s1, depth + 1, m)
           rb == IF g[data].b = "absent"
                 THEN [val |-> Leaf("absent"), seen |-> ra.seen]
                 ELSE PrepareForSerialization(g, g[data].b, ra.seen, depth + 1, m)
       IN [val |-> <<ra.val, rb.val>>, seen |-> rb.seen]

TypeError == Leaf("TypeError: Converting circular structure to JSON")

RECURSIVE Stringify(_, _, _)

\* JSON.stringify(arg, null, 2): the whole structure, or a TypeError when
\* an object is met again below itself
Stringify(g, value, stack) ==
  IF value \notin Nodes THEN Leaf(value)
  ELSE IF value \in stack THEN TypeError
  ELSE LET ra == IF g[value].a = "absent" THEN Leaf("absent")
                 ELSE Stringify(g, g[value].a, stack \cup {value})
           rb == IF g[value].b = "absent" THEN Leaf("absent")
                 ELSE Stringify(g, g[value].b, stack \cup {value})
       IN IF ra = TypeError \/ rb = TypeError THEN TypeError
          ELSE <<ra, rb>>

\* _formatConsoleLike(level, [arg]) for an object argument: the message the
\* single-message variant ships; String(arg) when JSON.stringify throws
FormatConsoleLike(g) ==
  LET json == Stringify(g, Root, {})
  IN IF json = TypeError THEN ObjectObject ELSE json

SerializerInputs == [graph : Graphs, maxErrorDepth : DepthOptions, by : {"none"}]

InitSerializer ==
  /\ ser \in SerializerInputs
  /\ mem = NoMemory
  /\ env = "node"
  /\ console = [m \in Slots |-> IF m = "text" THEN Undefined ELSE Native(m)]
  /\ listeners = [ev \in Events |-> <<>>]
  /\ win = [onerror |-> Null, onunhandledrejection |-> Null, added |-> <<>>]
  /\ appRegs = [ev \in Events |-> 0]
  /\ eng = [e \in Engines |-> NoEngine]
  /\ inflight = [e \in Engines |-> 0]
  /\ op = <<"start", "-", "-", "-">>
  /\ out = NoEffect
  /\ pre = Globals

Serialized(by, val) ==
  /\ ser.by = "none"
  /\ ser' = [graph |-> ser.graph, maxErrorDepth |-> ser.maxErrorDepth,
             by |-> by, val |-> val]
  /\ UNCHANGED <<mem, env, console, listeners, win, appRegs, eng, inflight, op, out, pre>>

\* the messages-list variant serializes the argument for its record
ShipMessages ==
  Serialized("_serializeObject",
             SerializeObject(ser.graph, MaxErrorDepthOf(ser.maxErrorDepth)))

\* the single-message variant formats the argument for its record
ShipMessage == Serialized("_formatConsoleLike", FormatConsoleLike(ser.graph))

\* _prepareForSerialization applied to the argument
Prepare ==
  Serialized("_prepareForSerialization",
             PrepareForSerialization(ser.graph, Root, {}, 0,
                                     MaxErrorDepthOf(ser.maxErrorDepth)).val)

NextSerializer == ShipMessages \/ ShipMessage \/ Prepare

SpecSerializer == InitSerializer /\ [][NextSerializer]_vars

(* ------------------------------------------------------------------ *)
(* The error enhancer                                                  *)
(* ------------------------------------------------------------------ *)

\* A value handed to _enhanceError is one object, "input": an Error or a
\* plain record, with the own enumerable properties code and source absent
\* or set by the application, a stack or none, and none of the properties
\* the enhancer adds unless the application had set them.
Sources == {"uncaughtException", "unhandledRejection", "console.error",
            "window.onerror"}

ErrorValues ==
  [id : {"input"}, kind : {"Error", "record"},
   code : {"absent", "E42"}, source : {"absent", "application"},
   stack : {"absent", "stack"}, loggerName : {"absent"}]

\* this._cleanStack(stack), or stack as it is
EnhancedStack(autoTraceErrors, stack) ==
  IF autoTraceErrors THEN "cleaned " \o stack ELSE stack

\* an enhancer that adds its properties to the object it was handed
EnhanceErrorInPlace(enhanceErrors, autoTraceErrors, name, error, source) ==
  LET enhanced == [error EXCEPT !.source = source, !.loggerName = name,
                                !.stack = EnhancedStack(autoTraceErrors,
                                            IF @ # "absent" THEN @
                                            ELSE "stack of the engine")]
  IN IF ~enhanceErrors THEN [result |-> error, input |-> error]
     ELSE [result |-> enhanced, input |-> enhanced]

\* _enhanceError(error, source): what it returns, and the input object
\* once it has returned
EnhanceError(enhanceErrors, autoTraceErrors, name, error, source) ==
  IF ~enhanceErrors THEN [result |-> error, input |-> error]
  ELSE [result |->
          [id |-> "enhancedError", kind |-> "record",
           code |-> error.code, source |-> source,
           stack |-> EnhancedStack(autoTraceErrors,
                                   IF error.stack # "absent" THEN error.stack
                                   ELSE "stack of the engine"),
           loggerName |-> name],
        input |-> error]

EnhancerInputs ==
  [error : ErrorValues, source : Sources, enhanceErrors : BOOLEAN,
   autoTraceErrors : BOOLEAN, name : {"ConsoleIQ", "TestLogger"}, by : {"none"}]

InitEnhancer ==
  /\ ser \in EnhancerInputs
  /\ mem = NoMemory
  /\ env \in Envs
  /\ console = [m \in Slots |-> IF m = "text" THEN Undefined ELSE Native(m)]
  /\ listeners = [ev \in Events |-> <<>>]
  /\ win = [onerror |-> Null, onunhandledrejection |-> Null, added |-> <<>>]
  /\ appRegs = [ev \in Events |-> 0]
  /\ eng = [e \in Engines |-> NoEngine]
  /\ inflight = [e \in Engines |-> 0]
  /\ op = <<"start", "-", "-", "-">>
  /\ out = NoEffect
  /\ pre = Globals

\* a handler or wrapper hands the value to _enhanceError
Enhance ==
  /\ ser.by = "none"
  /\ LET r == EnhanceError(ser.enhanceErrors, ser.autoTraceErrors, ser.name,
                           ser.error, ser.source)
     IN ser' = [error |-> ser.error, source |-> ser.source,
                enhanceErrors |-> ser.enhanceErrors,
                autoTraceErrors |-> ser.autoTraceErrors, name |-> ser.name,
                by |-> "_enhanceError", result |-> r.result, after |-> r.input]
  /\ UNCHANGED <<mem, env, console, listeners, win, appRegs, eng, inflight, op, out, pre>>

NextEnhancer == Enhance

SpecEnhancer == InitEnhancer /\ [][NextEnhancer]_vars

(* ------------------------------------------------------------------ *)
(* The configuration and the objects it shares                         *)
(* ------------------------------------------------------------------ *)

\* An array is an object: the array the application passes as
\* options.allowedLevels, the literal ['error', 'text'] of the constructor,
\* and the arrays passed to setConfig. A field that holds an array holds
\* its name; two fields with the same name hold the same array.
SetArrayNames == <<"set1", "set2", "set3">>
ArrayIds == {"given", "default"} \cup {SetArrayNames[i] : i \in 1..MaxSetArrays}
ConfigLevels == {"error", "text", "log"}

\* the levels a configuration ships:
\* this.config.endpoint && this.config.allowedLevels.includes(level)
ShippedLevels(m) ==
  IF Truthy(m.config.endpoint) THEN m.arrays[m.config.allowedLevels] ELSE {}

InitConfig ==
  /\ mem = NoMemory
  /\ ser = NoSerialization
  /\ env \in Envs
  /\ console = [m \in Slots |-> IF m = "text" THEN Undefined ELSE Native(m)]
  /\ listeners = [ev \in Events |-> <<>>]
  /\ win = [onerror |-> Null, onunhandledrejection |-> Null, added |-> <<>>]
  /\ appRegs = [ev \in Events |-> 0]
  /\ eng = [e \in Engines |-> NoEngine]
  /\ inflight = [e \in Engines |-> 0]
  /\ op = <<"start", "-", "-", "-">>
  /\ out = NoEffect
  /\ pre = Globals

ConfigStep(name) ==
  /\ op' = <<name, "-", "-", "-">>
  /\ UNCHANGED <<ser, env, console, listeners, win, appRegs, eng, inflight, out, pre>>

\* new ConsoleIQ(options): config.endpoint || default, and
\* config.allowedLevels || ['error', 'text'], the array itself
NewConfig(endpoint, given, levels) ==
  /\ ~mem.built
  /\ mem' =
       [built |-> TRUE,
        arrays |-> [a \in ArrayIds |->
                      IF a = "given" /\ given THEN levels
                      ELSE IF a = "default" /\ ~given THEN {"error", "text"}
                      ELSE {}],
        options |-> [endpoint |-> endpoint,
                     allowedLevels |-> IF given THEN "given" ELSE "absent"],
        config |-> [endpoint |-> OrDefault(endpoint, DefaultEndpointIQ),
                    allowedLevels |-> IF given THEN "given" ELSE "default"],
        returned |-> [endpoint |-> "absent", allowedLevels |-> "absent"],
        sets |-> 0]
  /\ ConfigStep("new")

\* getConfig(): { ...this.config }
GetConfig ==
  /\ mem.built
  /\ mem' = [mem EXCEPT !.returned = mem.config]
  /\ ConfigStep("getConfig")

\* the application changes the object getConfig() returned: it assigns to
\* a field, or pushes a level onto its allowedLevels
AssignReturned(endpoint) ==
  /\ mem.built /\ mem.returned.allowedLevels # "absent"
  /\ mem' = [mem EXCEPT !.returned.endpoint = endpoint]
  /\ ConfigStep("assignReturned")

PushReturned(level) ==
  /\ mem.built /\ mem.returned.allowedLevels # "absent"
  /\ mem' = [mem EXCEPT !.arrays[mem.returned.allowedLevels] = @ \cup {level}]
  /\ ConfigStep("pushReturned")

\* the application changes the options object it passed to the
\* constructor, or pushes a level onto the array it passed
AssignOptions(endpoint) ==
  /\ mem.built
  /\ mem' = [mem EXCEPT !.options.endpoint = endpoint]
  /\ ConfigStep("assignOptions")

PushOptions(level) ==
  /\ mem.built /\ mem.options.allowedLevels # "absent"
  /\ mem' = [mem EXCEPT !.arrays[mem.options.allowedLevels] = @ \cup {level}]
  /\ ConfigStep("pushOptions")

\* setConfig(newConfig): this.config = { ...this.config, ...newConfig }
SetConfig(endpoint, given, levels) ==
  /\ mem.built
  /\ given => mem.sets < MaxSetArrays
  /\ LET a == SetArrayNames[mem.sets + 1] IN
     mem' = [mem EXCEPT
               !.sets = IF given THEN @ + 1 ELSE @,
               !.arrays = IF given THEN [@ EXCEPT ![a] = levels] ELSE @,
               !.config.endpoint = IF endpoint = "absent" THEN @ ELSE endpoint,
               !.config.allowedLevels = IF given THEN a ELSE @]
  /\ ConfigStep("setConfig")

NextConfig ==
  \/ \E endpoint \in {"absent", "url"}, given \in BOOLEAN,
        levels \in {{}, {"error"}} : NewConfig(endpoint, given, levels)
  \/ GetConfig
  \/ \E endpoint \in {"null", "url2"} : AssignReturned(endpoint)
  \/ \E level \in ConfigLevels : PushReturned(level)
  \/ \E endpoint \in {"null", "url2"} : AssignOptions(endpoint)
  \/ \E level \in ConfigLevels : PushOptions(level)
  \/ \E endpoint \in {"absent", "null", "url2"}, given \in BOOLEAN,
        levels \in {{}, {"log"}} : SetConfig(endpoint, given, levels)

SpecConfig == InitConfig /\ [][NextConfig]_vars

(* ------------------------------------------------------------------ *)
(* Specifications                                                      *)
(* ------------------------------------------------------------------ *)

Lifecycle(es) ==
  \/ \E e \in es, kind \in Kinds : \E o \in OptionsOf(kind) : Construct(e, kind, o)
  \/ \E e \in es : InitIQ(e)
  \/ \E e \in es : InitText(e)
  \/ \E e \in es : RestoreIQ(e)
  \/ \E e \in es : RestoreText(e)

Logging(es) ==
  \/ \E m \in Slots, arg \in ArgKinds : Call(m, arg)
  \/ \E ev \in Events, v \in Thrown : Emit(ev, v)
  \/ \E e \in es, outcome \in {"ok", "fail"} : Settle(e, outcome)
  \/ Return

Hooks(es) ==
  \/ \E ev \in Events : AppListen(ev)
  \/ \E ev \in Events, v \in Thrown : Emit(ev, v)
  \/ \E e \in es, outcome \in {"ok", "fail"} : Settle(e, outcome)
  \/ Return

\* one engine of either kind, used for logging; the application registers
\* no handler of its own
Next == Lifecycle({"A"}) \/ Logging({"A"})

Spec == Init /\ [][Next]_vars

\* one engine of either kind, an application that registers its own
\* handlers, and uncaught exceptions and unhandled rejections
\* the options the handlers of uncaught exceptions and unhandled rejections
\* read
HookOptions(kind) ==
  {o \in AllOptions :
     /\ Given(o) \subseteq {"silent", "allowedLevels", "captureGlobalErrors",
                            "captureUnhandledRejections", "enhanceErrors"}
     /\ o.allowedLevels \in {"absent", "none"}
     /\ kind = "ConsoleText" => Given(o) \subseteq {"silent", "allowedLevels"}}

LifecycleHooks(es) ==
  \/ \E e \in es, kind \in Kinds : \E o \in HookOptions(kind) : Construct(e, kind, o)
  \/ \E e \in es : InitIQ(e)
  \/ \E e \in es : InitText(e)
  \/ \E e \in es : RestoreIQ(e)
  \/ \E e \in es : RestoreText(e)

NextHooks == LifecycleHooks({"A"}) \/ Hooks({"A"})

SpecHooks == Init /\ [][NextHooks]_vars

\* the options restore() reads; nothing is shipped
RestoreOptions ==
  {o \in AllOptions :
     /\ o.allowedLevels = "none"
     /\ Given(o) \subseteq {"allowedLevels", "captureConsoleErrors"}}

\* two engines that coexist; the application logs plain strings
LifecycleMulti ==
  \/ \E e \in Engines, kind \in Kinds : \E o \in RestoreOptions : Construct(e, kind, o)
  \/ \E e \in Engines : InitIQ(e)
  \/ \E e \in Engines : InitText(e)
  \/ \E e \in Engines : RestoreIQ(e)
  \/ \E e \in Engines : RestoreText(e)

NextMulti ==
  \/ LifecycleMulti
  \/ \E m \in Slots : Call(m, "prim")
  \/ Return

SpecMulti == Init /\ [][NextMulti]_vars

\* the options that decide where and how a record is shipped; every level
\* is shipped
ShipOptions ==
  {o \in AllOptions :
     /\ o.allowedLevels = "all"
     /\ Given(o) \subseteq {"allowedLevels", "endpoint", "apiKey", "name",
                            "environment"}}

\* one engine that ships every level; calls with one and two arguments
NextShip ==
  \/ \E kind \in Kinds : \E o \in ShipOptions : Construct("A", kind, o)
  \/ InitIQ("A")
  \/ InitText("A")
  \/ \E m \in Levels, arg \in ArgKinds : Call(m, arg)
  \/ \E m \in {"text", "error"}, a1, a2 \in {"prim", "obj", "err"} :
        CallMany(m, <<a1, a2>>)
  \/ \E ev \in Events, v \in Thrown : Emit(ev, v)
  \/ Settle("A", "ok")
  \/ Return

SpecShip == Init /\ [][NextShip]_vars

\* engines with the default levels and capture options, silent or not
LayerOptions == {o \in AllOptions : Given(o) \subseteq {"silent"}}

\* two engines, the later one built while the earlier one is initialized
\* or not; error and text calls are shipped and every POST succeeds or fails
NextLayers ==
  \/ \E e \in Engines, kind \in Kinds : \E o \in LayerOptions : Construct(e, kind, o)
  \/ \E e \in Engines : InitIQ(e)
  \/ \E e \in Engines : InitText(e)
  \/ \E m \in {"error", "text"} : Call(m, "prim")
  \/ \E e \in Engines, outcome \in {"ok", "fail"} : Settle(e, outcome)
  \/ Return

SpecLayers == Init /\ [][NextLayers]_vars

(* ------------------------------------------------------------------ *)
(* Claims                                                              *)
(* ------------------------------------------------------------------ *)

\* the functions an engine's init() installs on the console
IsEngineFn(f) == f[1] \in {"wrapper", "text", "pass", "consoleError"}

\* the last operation was restore() of e, called right after init() of e
RestoredAfterInit(e) == op = <<"restore", e, "afterInit", "-">>

\* engine e is an initialized ConsoleIQ whose function holds console[m]
Holds(e, m) ==
  /\ eng[e].kind = "ConsoleIQ" /\ eng[e].initialized
  /\ IsEngineFn(console[m]) /\ console[m][2] = e

LocalBy(eff, e) == SelectSeq(eff.local, LAMBDA x : x[1] = e)

\* C1: after init() then restore() of a ConsoleIQ, console.log, info, warn,
\* error and debug are the functions that were there before init()
C1_LeveledRestored ==
  \A e \in Engines :
    RestoredAfterInit(e) /\ eng[e].kind = "ConsoleIQ" =>
      \A m \in standardMethods : console[m] = pre.console[m]

\* C2: after init() then restore() of a ConsoleIQ, console.text is undefined
C2_TextRemoved ==
  \A e \in Engines :
    RestoredAfterInit(e) /\ eng[e].kind = "ConsoleIQ" =>
      console["text"] = Undefined

\* C3: on the server, after init() then restore() of a ConsoleIQ, the
\* listeners of uncaughtException and unhandledRejection are the lists
\* there were before init()
C3_ListenersRestored ==
  \A e \in Engines :
    RestoredAfterInit(e) /\ eng[e].kind = "ConsoleIQ" /\ env = "node" =>
      listeners = pre.listeners

\* C4: constructing an engine changes no console entry point and registers
\* no listener or window hook
C4_ConstructChangesNothing ==
  [][op'[1] = "new" =>
       console' = console /\ listeners' = listeners /\ win' = win]_vars

\* C4 happens: an engine has just been built while the application's
\* handlers are registered, and the console is the native one
C4_Witness ==
  /\ op = <<"new", "A", "-", "-">>
  /\ eng["A"].built
  /\ appRegs["uncaughtException"] > 0
  /\ \A m \in standardMethods : console[m] = Native(m)

\* C5: with no endpoint given, config.endpoint is null and the engine
\* never attempts a POST
C5_NoEndpointNoPost ==
  \A e \in Engines :
    eng[e].built /\ eng[e].options.endpoint = "absent" =>
      eng[e].config.endpoint = "null" /\ PostsBy(out, e) = 0

\* C6: a call, with a plain string, of the entry point of level L held by
\* an initialized ConsoleIQ with an endpoint and L in allowedLevels, makes
\* that engine attempt exactly one POST
C6_OnePostPerCall ==
  \A e \in Engines :
    /\ op[1] = "call" /\ op[3] \in Levels /\ op[4] = "prim"
    /\ Holds(e, op[3]) /\ Ships(e, op[3])
    => PostsBy(out, e) = 1

\* C7: every POST an engine attempts has a level of its allowedLevels; a
\* call of a leveled entry point whose level is not allowed makes the
\* engine holding it attempt none; a pass-through call attempts none
C7_OnlyAllowedLevels ==
  /\ \A i \in 1..Len(out.posts) :
       out.posts[i][2] \in eng[out.posts[i][1]].config.allowedLevels
  /\ op[1] = "call" /\ op[3] \in otherMethods => out.posts = <<>>
  /\ \A e \in Engines :
       op[1] = "call" /\ op[3] \in Levels /\ Holds(e, op[3])
         /\ op[3] \notin eng[e].config.allowedLevels =>
           PostsBy(out, e) = 0

\* C7 happens: console.log was called on an initialized ConsoleIQ that
\* ships other levels, printed locally and attempted no POST
C7_Witness ==
  /\ op[1] = "call" /\ op[3] = "log"
  /\ Holds("A", "log")
  /\ eng["A"].config.allowedLevels = {"error", "text"}
  /\ Truthy(eng["A"].config.endpoint)
  /\ out.posts = <<>>
  /\ out.local = <<<<"A", "log">>>>

\* C8: a silent engine never calls a function of its originalConsole
C8_SilentCallsNoOriginal ==
  \A e \in Engines :
    eng[e].built /\ eng[e].config.silent => LocalBy(out, e) = <<>>

\* C9 as stated: a failed POST of a ConsoleIQ raises nothing and delivers
\* exactly one message to its originalConsole.error
C9_OneMessagePerFailure ==
  \A e \in Engines :
    op = <<"settle", e, "fail", "-">> /\ eng[e].kind = "ConsoleIQ" =>
      ~out.raised /\ LocalBy(out, e) = <<<<e, "error">>>>

\* C9 amended: a failed POST of a ConsoleIQ raises nothing, rejects no
\* promise, and delivers exactly one message to its originalConsole.error
\* when silent is false and none when silent is true
C9_OneMessageUnlessSilent ==
  \A e \in Engines :
    op = <<"settle", e, "fail", "-">> /\ eng[e].kind = "ConsoleIQ" =>
      /\ ~out.raised
      /\ out.rejected = 0
      /\ LocalBy(out, e) =
           IF eng[e].config.silent THEN <<>> ELSE <<<<e, "error">>>>

\* C9 happens: a POST of a ConsoleIQ that is not silent failed and the
\* message reached the native console.error
C9_Witness ==
  /\ op = <<"settle", "A", "fail", "-">>
  /\ eng["A"].kind = "ConsoleIQ" /\ ~eng["A"].config.silent
  /\ out.local = <<<<"A", "error">>>>
  /\ out.native = <<"error">>

\* C10: no call of an entry point an engine installed raises an exception
C10_CallsNeverRaise ==
  op[1] = "call" /\ IsEngineFn(console[op[3]]) => ~out.raised

TracesBy(eff, e) == SelectSeq(eff.traces, LAMBDA x : x[1] = e)

\* C11: console.error(e) with an Error e, on an initialized ConsoleIQ with
\* autoTraceErrors and not silent, prints the error line and exactly one
\* trace line, which holds the stack of e
C11_OneTraceOfTheError ==
  \A e \in Engines :
    /\ op = <<"call", "-", "error", "err">>
    /\ Holds(e, "error")
    /\ eng[e].config.autoTraceErrors /\ ~eng[e].config.silent
    => TracesBy(out, e) = <<<<e, "argument">>>>

\* how many times the application's n-th handler of ev was invoked
Invocations(eff, n, ev) ==
  Cardinality({i \in 1..Len(eff.app) : eff.app[i] = AppFn(n, ev)})

\* C12: on the server, while a ConsoleIQ that captures both events is
\* initialized, an uncaught Error or a rejection with an Error invokes every
\* listener registered before init() exactly once
C12_PriorListenersInvoked ==
  \A e \in Engines :
    /\ op[1] = "emit" /\ op[4] = "err" /\ env = "node"
    /\ eng[e].kind = "ConsoleIQ" /\ eng[e].initialized /\ eng[e].inits = 1
    /\ eng[e].config.captureGlobalErrors
    /\ eng[e].config.captureUnhandledRejections
    => \A n \in 1..appRegs[op[3]] : Invocations(out, n, op[3]) = 1

\* C13: with ConsoleIQ engines A and B both initialized, A.restore()
\* changes no console entry point that holds a function installed by B
C13_RestoreKeepsOthersSlots ==
  [][\A a, b \in Engines :
       /\ a # b /\ op'[1] = "restore" /\ op'[2] = a
       /\ eng[a].kind = "ConsoleIQ" /\ eng[a].initialized
       /\ eng[b].kind = "ConsoleIQ" /\ eng[b].initialized
       => \A m \in Slots :
            IsEngineFn(console[m]) /\ console[m][2] = b =>
              console'[m] = console[m]]_vars

\* C14: once restore() of a ConsoleIQ has returned, no logging call, uncaught
\* exception or unhandled rejection makes that engine print or attempt a
\* POST
C14_NothingAfterRestore ==
  \A e \in Engines :
    /\ op[1] \in {"call", "emit"}
    /\ eng[e].kind = "ConsoleIQ" /\ eng[e].inits > 0 /\ ~eng[e].initialized
    => LocalBy(out, e) = <<>> /\ PostsBy(out, e) = 0

\* C15: restore() of a ConsoleIQ that is not initialized changes no console
\* entry point, no listener and no window hook
C15_RestoreUninitializedNoOp ==
  [][\A e \in Engines :
       /\ op'[1] = "restore" /\ op'[2] = e
       /\ eng[e].kind = "ConsoleIQ" /\ ~eng[e].initialized
       => console' = console /\ listeners' = listeners /\ win' = win]_vars

\* C15 happens: restore() of a ConsoleIQ never initialized has returned
\* while the console holds the functions another engine installed after
\* the first was built
C15_Witness ==
  /\ op = <<"restore", "A", "-", "-">>
  /\ eng["A"].kind = "ConsoleIQ" /\ eng["A"].inits = 0
  /\ eng["A"].originalConsole["log"] = Native("log")
  /\ eng["B"].initialized
  /\ console["log"] = Wrapper("B", 1, "log")
  /\ console["text"] = TextFn("B", 1)

\* the logged object has a key that points back to the object itself
SelfReference(g) == g[Root].a = Root \/ g[Root].b = Root

\* C16: for a logged object with a key that points back to itself, the
\* record either variant ships is built (serialization ends) and holds
\* '[Circular Reference]' in place of the key
C16_CyclicSlotPlaceholder ==
  /\ ser.by \in {"_serializeObject", "_formatConsoleLike"}
  /\ SelfReference(ser.graph)
  => /\ Len(ser.val) = 2
     /\ \A k \in 1..2 :
          (IF k = 1 THEN ser.graph[Root].a ELSE ser.graph[Root].b) = Root
            => ser.val[k] = CircularReference

RECURSIVE Structure(_, _, _, _)

\* the value below v with every branch deeper than m cut
Structure(g, v, depth, m) ==
  IF v = "absent" THEN Leaf(v)
  ELSE IF depth > m THEN MaxDepthReached
  ELSE IF v \notin Nodes THEN Leaf(v)
  ELSE <<Structure(g, g[v].a, depth + 1, m), Structure(g, g[v].b, depth + 1, m)>>

\* no object of the value lies below itself
Acyclic(g) == Stringify(g, Root, {}) # TypeError

\* C17: for a value without cycles and maxErrorDepth m, left at its default
\* or set to 1 or more, the serializers return the structure of the value
\* down to depth m, the logged argument being depth 0, and
\* '[Max Depth Reached]' for every branch below
C17_StructureToMaxDepth ==
  /\ ser.by \in {"_serializeObject", "_prepareForSerialization"}
  /\ Acyclic(ser.graph)
  /\ ser.maxErrorDepth.given => ser.maxErrorDepth.value >= 1
  => ser.val = Structure(ser.graph, Root, 0, MaxErrorDepthOf(ser.maxErrorDepth))

\* the requests engine e posted in the last operation
RequestsBy(eff, e) ==
  {eff.posts[i][3] : i \in {j \in 1..Len(eff.posts) : eff.posts[j][1] = e}}

\* C18: a ConsoleIQ built with environment 'browser' or 'node' has that
\* value as config.environment and in every record it ships
C18_EnvironmentOption ==
  \A e \in Engines :
    /\ eng[e].built /\ eng[e].kind = "ConsoleIQ"
    /\ eng[e].options.environment # "absent"
    => /\ eng[e].config.environment = eng[e].options.environment
       /\ \A r \in RequestsBy(out, e) :
            r.environment = eng[e].options.environment

\* C19: every POST goes to config.endpoint, carries config.name, has
\* Content-Type application/json, and has Authorization 'Bearer <apiKey>'
\* exactly when an apiKey was given
C19_RequestShape ==
  \A e \in Engines : \A r \in RequestsBy(out, e) :
    /\ r.url = eng[e].config.endpoint
    /\ r.name = eng[e].config.name
    /\ r.headers.contentType = "application/json"
    /\ r.headers.authorization =
         IF eng[e].options.apiKey = "absent" THEN <<>>
         ELSE <<"Bearer", eng[e].options.apiKey>>

\* C19 happens: console.text was called on an initialized ConsoleIQ built
\* with an endpoint, an apiKey and a name, and the POST went out with them
C19_Witness ==
  /\ op = <<"call", "-", "text", "prim">>
  /\ Holds("A", "text")
  /\ eng["A"].options.endpoint = "url"
  /\ eng["A"].options.name = "TestLogger"
  /\ Len(out.posts) = 1
  /\ out.posts[1][3].url = "url"
  /\ out.posts[1][3].name = "TestLogger"
  /\ out.posts[1][3].headers.authorization = <<"Bearer", "test-key">>

\* the arguments of the last call
ArgsOf(o) == IF o[1] = "call" THEN <<o[4]>> ELSE o[4]

\* C20: console.text(a1..an) on an initialized ConsoleIQ ships a record of
\* level 'text' whose messages are n entries in argument order, every
\* string argument as that string
C20_TextMessages ==
  \A e \in Engines :
    /\ op[1] \in {"call", "calls"} /\ op[3] = "text" /\ Holds(e, "text")
    => \A r \in RequestsBy(out, e) :
         /\ r.level = "text"
         /\ Len(r.messages) = Len(ArgsOf(op))
         /\ \A i \in 1..Len(ArgsOf(op)) :
              /\ ArgsOf(op)[i] = "prim" => r.messages[i] = StringOf("prim")
              /\ ArgsOf(op)[i] # "prim" => r.messages[i] # StringOf("prim")

\* C20 happens: console.text('hello', {..}) was called on an initialized
\* ConsoleIQ and one record went out with the string first
C20_Witness ==
  /\ op = <<"calls", "-", "text", <<"prim", "obj">>>>
  /\ Holds("A", "text")
  /\ Len(out.posts) = 1
  /\ out.posts[1][3].level = "text"
  /\ out.posts[1][3].messages = <<StringOf("prim"), Serialization("obj")>>

\* engine e is a ConsoleText whose init() installed the function that holds
\* console[m]
HoldsText(e, m) ==
  /\ eng[e].kind = "ConsoleText" /\ eng[e].inits > 0
  /\ IsEngineFn(console[m]) /\ console[m][2] = e

\* C21: a call of console.log, info, warn, error or debug held by a
\* ConsoleText makes that engine attempt no POST, whatever its configuration
C21_TextOnlyShips ==
  \A e \in Engines :
    op[1] = "call" /\ op[3] \in standardMethods /\ HoldsText(e, op[3]) =>
      PostsBy(out, e) = 0

\* C22: when a call of a leveled entry point returns, every POST it made is
\* still awaiting its outcome and its local output is done; the outcome of a
\* POST is handled only after the call has returned
C22_ReturnsBeforeOutcome ==
  [][/\ op'[1] = "call" =>
          \A e \in Engines : inflight'[e] = inflight[e] + PostsBy(out', e)
     /\ op'[1] = "settle" => op[1] \notin {"call", "calls", "emit"}]_vars

\* C22 happens: console.error('x') on an initialized ConsoleIQ has printed
\* through the native console.error and returned, its POSTs in flight
C22_Witness ==
  /\ op = <<"call", "-", "error", "prim">>
  /\ Holds("A", "error")
  /\ PostsBy(out, "A") >= 1
  /\ inflight["A"] = PostsBy(out, "A")
  /\ LocalBy(out, "A") = <<<<"A", "error">>>>
  /\ out.native = <<"error">>

\* C23: no promise returned by _sendToServer ends rejected, whatever the
\* arguments of the call and the outcome of the POST, for either engine
C23_NoRejectedShipment == out.rejected = 0

\* C24: after init() then restore() of a ConsoleIQ, console.dir, table, time,
\* timeEnd, trace and assert are the functions that were there before init()
C24_PassThroughRestored ==
  \A e \in Engines :
    RestoredAfterInit(e) /\ eng[e].kind = "ConsoleIQ" =>
      \A m \in otherMethods : console[m] = pre.console[m]

\* C25: restore() of a ConsoleText changes no console entry point other
\* than those that hold a function this engine installed
C25_RestoreTextOwnSlots ==
  [][\A e \in Engines :
       /\ op'[1] = "restore" /\ op'[2] = e
       /\ eng[e].kind = "ConsoleText"
       => \A m \in Slots :
            ~(IsEngineFn(console[m]) /\ console[m][2] = e) =>
              console'[m] = console[m]]_vars

\* init() of e was called twice with no restore() between, then restore():
\* before the second init() every entry point held what the first installed
RestoredAfterSecondInit(e) ==
  /\ RestoredAfterInit(e) /\ eng[e].inits = 2
  /\ \A m \in Slots :
       IsEngineFn(pre.console[m]) /\ pre.console[m][2] = e /\ pre.console[m][3] = 1

\* C26: after init(), init(), restore() of a ConsoleIQ every console entry
\* point holds the replacement the first init() installed
C26_OnlySecondLayerUndone ==
  \A e \in Engines :
    RestoredAfterSecondInit(e) /\ eng[e].kind = "ConsoleIQ" =>
      \A m \in Slots : console[m] = pre.console[m]

\* C27: on the server, whatever init() and restore() calls a ConsoleIQ has
\* seen, the delivery of an uncaught exception or an unhandled rejection
\* ends: no listener of the engine forwards the event to itself
C27_DeliveryEnds ==
  op[1] = "emit" /\ env = "node" => ~out.diverged

\* C28: the report of a failed POST makes no engine attempt a further POST
C28_FailureShipsNothing ==
  op[1] = "settle" /\ op[3] = "fail" => out.posts = <<>>

RECURSIVE EndsOutside(_, _, _)

\* every chain of calls from f reaches, within n functions installed by
\* engines, a function no engine installed, and never a function of an
\* engine of printing, the engines whose wrapper, console.text or
\* pass-through is printing further up the chain
EndsOutside(f, n, printing) ==
  IF ~IsEngineFn(f) THEN f[1] = "native"
  ELSE IF n = 0 \/ f[2] \in printing THEN FALSE
  ELSE \A c \in Callees(f) :
         EndsOutside(c, n - 1,
                     IF f[1] = "consoleError" THEN printing
                     ELSE printing \cup {f[2]})

\* an engine installs at most its override of console.error above its
\* wrapper on one chain
LongestChain == 2 * Cardinality(Engines)

\* C29: whatever was constructed, initialized and restored, the chain of
\* calls from a console entry point held by an engine ends in a function no
\* engine installed, and what a wrapper, console.text or pass-through of an
\* engine calls to print never leads to a function of that engine; a call
\* that printed has reached a native function
C29_OutputNeverReenters ==
  /\ \A m \in Slots :
       IsEngineFn(console[m]) => EndsOutside(console[m], LongestChain, {})
  /\ op[1] = "call" /\ out.local # <<>> => out.native # <<>> /\ ~out.diverged

\* C29 happens: console.log('x') while B, built after A's init(), is
\* initialized: B's wrapper printed through A's wrapper, which printed
\* through the native console.log
C29_Witness ==
  /\ op = <<"call", "-", "log", "prim">>
  /\ console["log"] = Wrapper("B", 1, "log")
  /\ eng["B"].originalConsole["log"] = Wrapper("A", 1, "log")
  /\ out.local = <<<<"B", "log">>, <<"A", "log">>>>
  /\ out.native = <<"log">>

\* restore() of e has returned and init() was not called since
Restored(e) == eng[e].inits > 0 /\ ~eng[e].initialized

\* C30: restore() leaves the shipments in flight as they are; the outcome
\* of a POST of a restored ConsoleIQ can still arrive; when the POST fails
\* the message goes to the console.error captured at construction, once
\* unless silent, as for an engine not restored, and the outcome changes no
\* console entry point, listener or window hook
C30_InFlightSurvivesRestore ==
  [][/\ op'[1] = "restore" => inflight' = inflight
     /\ op'[1] = "settle" =>
          console' = console /\ listeners' = listeners /\ win' = win
     /\ \A e \in Engines :
          eng[e].kind = "ConsoleIQ" /\ Restored(e) =>
            /\ inflight[e] > 0 /\ Quiet => ENABLED Settle(e, "fail")
            /\ op' = <<"settle", e, "fail", "-">> =>
                 /\ inflight'[e] = inflight[e] - 1
                 /\ ~out'.raised /\ out'.rejected = 0
                 /\ LocalBy(out', e) =
                      IF eng[e].config.silent THEN <<>> ELSE <<<<e, "error">>>>
                 /\ out'.native =
                      IF eng[e].config.silent THEN <<>> ELSE <<"error">>]_vars

\* C30 happens: a POST of a ConsoleIQ failed after restore() and the message
\* reached the native console.error, console.log being the native one again
C30_Witness ==
  /\ op = <<"settle", "A", "fail", "-">>
  /\ eng["A"].kind = "ConsoleIQ" /\ Restored("A")
  /\ ~eng["A"].config.silent
  /\ console["log"] = Native("log")
  /\ out.local = <<<<"A", "error">>>>
  /\ out.native = <<"error">>

\* C31: the delivery of an uncaught exception or an unhandled rejection
\* whose value is null, undefined or another primitive raises no exception
\* in a handler, whatever enhanceErrors is
C31_HandlersNeverRaise ==
  op[1] = "emit" /\ op[4] \in {"null", "prim"} /\ ~out.diverged => ~out.raised

SummariesBy(eff, e) == SelectSeq(eff.summaries, LAMBDA x : x[1] = e)

\* C32: for an uncaught Error on the server, the summary an initialized
\* ConsoleIQ that captures global errors formats holds the logger name, the
\* event type and the message of the Error, whatever enhanceErrors is
C32_SummaryHoldsMessage ==
  \A e \in Engines :
    /\ op = <<"emit", "-", "uncaughtException", "err">> /\ env = "node"
    /\ eng[e].kind = "ConsoleIQ" /\ eng[e].initialized /\ eng[e].inits = 1
    /\ eng[e].config.captureGlobalErrors
    => SummariesBy(out, e) =
         <<<<e, [name |-> eng[e].config.name, type |-> "uncaughtException",
                 message |-> "message"]>>>>

\* the error-level records engine e posted in the last operation, as the
\* single-message variant builds them
ErrorRecordsSingle(eff, e) ==
  {RequestSingle(e, "error", ShippedArgs(r)) :
     r \in {x \in RequestsBy(eff, e) : x.level = "error"}}

\* C33: when console.error(e) is called with an Error e, or e is delivered
\* as an uncaught exception or unhandled rejection, every error-level record
\* the single-message ConsoleIQ ships for it carries the stack of e,
\* whatever enhanceErrors is
C33_RecordCarriesStack ==
  \A e \in Engines :
    /\ \/ op = <<"call", "-", "error", "err">> /\ Holds(e, "error")
       \/ op[1] = "emit" /\ op[4] = "err"
    /\ eng[e].kind = "ConsoleIQ"
    => \A r \in ErrorRecordsSingle(out, e) : r.stack = "stack"

\* C34: _enhanceError leaves every property of its input as it was; with
\* enhanceErrors true it returns a new record, with enhanceErrors false the
\* input itself
C34_EnhancerKeepsInput ==
  ser.by = "_enhanceError" =>
    /\ ser.after = ser.error
    /\ ser.enhanceErrors => ser.result.id # ser.error.id
    /\ ~ser.enhanceErrors => ser.result = ser.error

\* C34 happens: an Error with a property of its own and a source set by the
\* application was enhanced for console.error: the record has the new
\* source and the Error has kept its own
C34_Witness ==
  /\ ser.by = "_enhanceError" /\ ser.enhanceErrors
  /\ ser.error.kind = "Error" /\ ser.error.code = "E42"
  /\ ser.error.source = "application"
  /\ ser.source = "console.error"
  /\ ser.result.source = "console.error" /\ ser.result.code = "E42"
  /\ ser.after.source = "application"

\* C35: once an engine is constructed, the levels it ships change only in
\* setConfig: not when the application changes the object getConfig()
\* returned or its allowedLevels array, nor when it changes the options or
\* the allowedLevels array it passed to the constructor
C35_ConfigChangesBySetConfig ==
  [][mem.built /\ op'[1] # "setConfig" =>
       ShippedLevels(mem') = ShippedLevels(mem)]_vars

\* C36: the snapshot of a ConsoleIQ, its originalConsole and the handlers
\* it saved, is written at construction only: no later operation changes it
C36_SnapshotWrittenOnce ==
  [][\A e \in Engines :
       eng[e].built /\ eng[e].kind = "ConsoleIQ" =>
         /\ eng'[e].originalConsole = eng[e].originalConsole
         /\ eng'[e].onerror = eng[e].onerror
         /\ eng'[e].onunhandledrejection = eng[e].onunhandledrejection]_vars

\* the number of keys of the value's objects that refer to object n
References(g, n) ==
  Cardinality({p \in Nodes : g[p].a = n}) + Cardinality({p \in Nodes : g[p].b = n})

\* every object of the value is referred to at one place at most and none
\* lies below itself
Tree(g) == Acyclic(g) /\ \A n \in Nodes : References(g, n) <= 1

\* C37: a maxErrorDepth n >= 0 given to the constructor is the ceiling of
\* the serializer: a value whose objects are each referred to once is
\* returned with its structure down to depth n and '[Max Depth Reached]'
\* below, so with n = 0 every key of the logged argument reads
\* '[Max Depth Reached]'
C37_GivenDepthIsCeiling ==
  /\ ser.by = "_serializeObject"
  /\ ser.maxErrorDepth.given
  /\ Tree(ser.graph)
  => ser.val = Structure(ser.graph, Root, 0, ser.maxErrorDepth.value)

RECURSIVE SerializedBelowAncestors(_, _, _, _, _)

\* the value below v down to depth m, with '[Circular Reference]' only
\* where v is one of its own ancestors
SerializedBelowAncestors(g, v, depth, ancestors, m) ==
  IF v = "absent" THEN Leaf(v)
  ELSE IF depth > m THEN MaxDepthReached
  ELSE IF v \notin Nodes THEN Leaf(v)
  ELSE IF v \in ancestors THEN CircularReference
  ELSE <<SerializedBelowAncestors(g, g[v].a, depth + 1, ancestors \cup {v}, m),
         SerializedBelowAncestors(g, g[v].b, depth + 1, ancestors \cup {v}, m)>>

\* C38: the serializers put '[Circular Reference]' only where a value is
\* its own ancestor; an object referred to at two places without a cycle
\* is serialized in full at both
C38_CircularOnlyForAncestors ==
  ser.by \in {"_serializeObject", "_prepareForSerialization"}
  => ser.val = SerializedBelowAncestors(ser.graph, Root, 0, {},
                                        MaxErrorDepthOf(ser.maxErrorDepth))

(* ------------------------------------------------------------------ *)
(* Local output of ConsoleText                                         *)
(* ------------------------------------------------------------------ *)

\* the most arguments of one logging call
MaxArgs == 2

\* the levels ConsoleText hands to _applyColorAndLog: the five standard
\* methods of init() and text
ColorLevels == {"log", "info", "warn", "error", "debug", "text"}

\* an argument: a string, a number or an object, the text it reads and the
\* colour it is wrapped in
ColorValues ==
  [type : {"string", "number", "object"}, text : {"v", "w"}, color : {"none"}]

ArgLists == UNION {[1..n -> ColorValues] : n \in 0..MaxArgs}

\* colorMap: log is left as it is, the other levels have a chalk colour
ColorMap(level) ==
  CASE level = "info" -> "blue"
    [] level = "warn" -> "yellow"
    [] level = "error" -> "red"
    [] level = "debug" -> "green"
    [] level = "text" -> "cyan"
    [] OTHER -> "none"

\* chalk.<color>(text): the text between the colour's escape codes, or the
\* text itself when the terminal has no colours
Chalk(color, supportsColor, arg) ==
  IF color = "none" \/ ~supportsColor THEN arg
  ELSE [type |-> "string", text |-> arg.text, color |-> color]

\* a colorizer that hands every argument to the colour function
ApplyColorToAll(level, args, supportsColor) ==
  [i \in 1..Len(args) |-> Chalk(ColorMap(level), supportsColor, args[i])]

\* applyColor(level, args)
ApplyColor(level, args, supportsColor) ==
  [i \in 1..Len(args) |->
     IF args[i].type = "string"
     THEN Chalk(ColorMap(level), supportsColor, args[i])
     ELSE args[i]]

ColorInputs ==
  [level : ColorLevels, args : ArgLists, colorize : {"absent", "false", "true"},
   supportsColor : BOOLEAN, by : {"none"}]

InitColor ==
  /\ ser \in ColorInputs
  /\ mem = NoMemory
  /\ env = "node"
  /\ console = [m \in Slots |-> IF m = "text" THEN Undefined ELSE Native(m)]
  /\ listeners = [ev \in Events |-> <<>>]
  /\ win = [onerror |-> Null, onunhandledrejection |-> Null, added |-> <<>>]
  /\ appRegs = [ev \in Events |-> 0]
  /\ eng = [e \in Engines |-> NoEngine]
  /\ inflight = [e \in Engines |-> 0]
  /\ op = <<"start", "-", "-", "-">>
  /\ out = NoEffect
  /\ pre = Globals

\* ConsoleText._applyColorAndLog(level, ...args) with colorize as the
\* constructor stored it: the entry of originalConsole it calls and the
\* arguments it passes
LogLocally ==
  /\ ser.by = "none"
  /\ LET colorize == NotFalse(ser.colorize)
         slot == IF ser.level = "text" THEN "log" ELSE ser.level
         passed == IF ~colorize THEN ser.args
                   ELSE ApplyColor(ser.level, ser.args, ser.supportsColor)
     IN ser' = [level |-> ser.level, args |-> ser.args,
                colorize |-> ser.colorize, supportsColor |-> ser.supportsColor,
                by |-> "_applyColorAndLog", slot |-> slot, passed |-> passed]
  /\ UNCHANGED <<mem, env, console, listeners, win, appRegs, eng, inflight, op, out, pre>>

NextColor == LogLocally

SpecColor == InitColor /\ [][NextColor]_vars

\* C39: for every level and argument list the local output of ConsoleText
\* calls the original entry of the level, the original log for text, with
\* as many arguments in the same order; every argument that is no string
\* is passed as it is, a string keeps its text, and with colorize false
\* the arguments are passed unchanged
C39_LocalOutputKeepsArguments ==
  ser.by = "_applyColorAndLog" =>
    /\ ser.slot = (IF ser.level = "text" THEN "log" ELSE ser.level)
    /\ Len(ser.passed) = Len(ser.args)
    /\ \A i \in 1..Len(ser.args) :
         IF ser.args[i].type = "string"
         THEN /\ ser.passed[i].type = "string"
              /\ ser.passed[i].text = ser.args[i].text
         ELSE ser.passed[i] = ser.args[i]
    /\ ser.colorize = "false" => ser.passed = ser.args

\* console.text(object, string) with colours on: the string reaches the
\* original log in cyan behind the object
C39_Witness ==
  /\ ser.by = "_applyColorAndLog"
  /\ ser.level = "text"
  /\ ser.colorize # "false"
  /\ Len(ser.args) = 2
  /\ ser.args[1].type = "object"
  /\ ser.args[2].type = "string"
  /\ ser.passed[2].color = "cyan"

====
